---- MODULE Spec2Model ----
(***************************************************************************)
(* Server lifecycle orchestration of the Minecraft-on-Fargate stack:       *)
(* the ECS service and its tasks, the five inline Lambda handlers, the two *)
(* Step Functions state machines and the HTTP API handler.                 *)
(***************************************************************************)
EXTENDS Integers, Sequences, FiniteSets, TLC

\* ------------------------------------------------------------------ bounds
MaxExecs == 2        \* workflow executions the API may create in one behaviour
MaxTasks == 2        \* task instances the service scheduler may launch

\* ------------------------------------------------------- program constants
InitialDesiredCount == 1    \* FargateService(desired_count=1)
WaiterDelay == 6            \* WaiterConfig Delay (seconds)
WaiterMaxAttempts == 20     \* WaiterConfig MaxAttempts
GetIPTimeout == 30          \* GetIPFunction timeout (seconds)
EnableRoute53 == FALSE      \* config.get("enable_route53", False)
ClusterName == "MinecraftCluster"
UtcNow == "2026-01-01T00:00:00"    \* what datetime.utcnow().isoformat() reads

VARIABLES
    desiredCount,   \* the Service's desired count
    tasks,          \* task instances of the cluster, by taskArn (1..Len)
    execs,          \* workflow executions, by executionArn (1..Len)
    platform,       \* the network attachment the platform gives the service's tasks
    response,       \* what the last ApiHandler invocation returned
    lastScale,      \* which scale operation completed last: "none", "start", "stop"
    gip             \* the GetIPFunction invocation in progress, if any

vars == <<desiredCount, tasks, platform, execs, response, lastScale, gip>>

\* ------------------------------------------------------------ JSON objects
\* A JSON object is a function from its keys; {} is the empty function.
EmptyObject == <<>>

HasKey(obj, k) == k \in DOMAIN obj

\* dict.get(k, default)
Get(obj, k, default) == IF HasKey(obj, k) THEN obj[k] ELSE default

\* obj with obj[k] = v
Put(obj, k, v) == [x \in (DOMAIN obj) \cup {k} |-> IF x = k THEN v ELSE obj[x]]

RECURSIVE Select(_, _)
\* the value at a JSONPath $.k1.k2... given as <<k1, k2, ...>>
Select(obj, path) ==
    IF path = <<>> THEN obj ELSE Select(obj[Head(path)], Tail(path))

\* no API call made yet
NoResponse == [statusCode |-> 0, body |-> EmptyObject]

\* no GetIPFunction invocation in progress
GipIdle == [pc |-> "idle", caller |-> 0, event |-> EmptyObject, attempts |-> 0,
            elapsed |-> 0, seen |-> "", result |-> EmptyObject]

\* --------------------------------------------------------- task instances
\* The three shapes of a task's network attachment: no networkInterfaceId
\* detail, an interface without an Association, an interface with a public IP.
NoInterface == [attachments |-> <<[details |-> <<[name |-> "subnetId", value |-> "subnet-1"]>>]>>,
                publicIp |-> ""]
InterfaceNoIp == [attachments |-> <<[details |-> <<[name |-> "subnetId", value |-> "subnet-1"],
                                                   [name |-> "networkInterfaceId", value |-> "eni-1"]>>]>>,
                  publicIp |-> ""]
InterfaceWithIp == [attachments |-> <<[details |-> <<[name |-> "subnetId", value |-> "subnet-1"],
                                                     [name |-> "networkInterfaceId", value |-> "eni-1"]>>]>>,
                    publicIp |-> "203.0.113.7"]
NetworkShapes == <<NoInterface, InterfaceNoIp, InterfaceWithIp>>

TaskIds == 1..Len(tasks)

\* ecs.list_tasks(cluster, desiredStatus='RUNNING'): the matching task ids
DesiredRunning == {t \in TaskIds : tasks[t].desiredStatus = "RUNNING"}

\* the orders in which list_tasks may return them
ListTasks ==
    LET S == DesiredRunning
    IN  {s \in [1..Cardinality(S) -> S] : \A i, j \in 1..Cardinality(S) : s[i] = s[j] => i = j}

\* The service scheduler starts a task while fewer than desiredCount are wanted.
EcsLaunchTask ==
    /\ Cardinality(DesiredRunning) < desiredCount
    /\ Len(tasks) < MaxTasks
    /\ tasks' = Append(tasks, [lastStatus |-> "PENDING", desiredStatus |-> "RUNNING",
                               net |-> platform])
    /\ UNCHANGED <<desiredCount, platform, execs, response, lastScale, gip>>

\* A pending task reaches RUNNING.
EcsTaskRunning(t) ==
    /\ tasks[t].lastStatus = "PENDING"
    /\ tasks[t].desiredStatus = "RUNNING"
    /\ tasks' = [tasks EXCEPT ![t].lastStatus = "RUNNING"]
    /\ UNCHANGED <<desiredCount, platform, execs, response, lastScale, gip>>

\* The scheduler drains a task when more than desiredCount are wanted.
EcsDrainTask(t) ==
    /\ tasks[t].desiredStatus = "RUNNING"
    /\ Cardinality(DesiredRunning) > desiredCount
    /\ tasks' = [tasks EXCEPT ![t].desiredStatus = "STOPPED"]
    /\ UNCHANGED <<desiredCount, platform, execs, response, lastScale, gip>>

\* The server process of a task exits on its own (or never comes up).
EcsTaskExits(t) ==
    /\ tasks[t].desiredStatus = "RUNNING"
    /\ tasks' = [tasks EXCEPT ![t].desiredStatus = "STOPPED"]
    /\ UNCHANGED <<desiredCount, platform, execs, response, lastScale, gip>>

\* A task told to stop stops.
EcsTaskStopped(t) ==
    /\ tasks[t].desiredStatus = "STOPPED"
    /\ tasks[t].lastStatus # "STOPPED"
    /\ tasks' = [tasks EXCEPT ![t].lastStatus = "STOPPED"]
    /\ UNCHANGED <<desiredCount, platform, execs, response, lastScale, gip>>

\* --------------------------------------------------------- Lambda handlers
\* What an invocation does: the error it raises ("" when it returns), the
\* desired count it leaves on the Service, and the value it returns.
Returned(count, ret) == [error |-> "", desiredCount |-> count, ret |-> ret]
Raised(err) == [error |-> err, desiredCount |-> desiredCount, ret |-> EmptyObject]

\* Mutant: the scale-up adds an instance instead of setting the count to 1.
StartTaskFunctionScalesOut(event) ==
    Returned(desiredCount + 1, [statusCode |-> 200, message |-> "Server started"])

\* StartTaskFunction: ecs.update_service(desiredCount=1)
StartTaskFunction(event) ==
    Returned(1, [statusCode |-> 200, message |-> "Server started"])

\* Mutant: the scale-down leaves the desired count as it is.
StopTaskFunctionKeepsCount(event) ==
    Returned(desiredCount, [statusCode |-> 200, message |-> "Server stopped"])

\* StopTaskFunction: ecs.update_service(desiredCount=0)
StopTaskFunction(event) ==
    Returned(0, [statusCode |-> 200, message |-> "Server stopped"])

\* f"backups/world-{timestamp}.tar.gz"
BackupKey(timestamp) == <<"backups/world-", timestamp, ".tar.gz">>

\* BackupFunction: reads event['cluster'], event['taskArn'], returns the key
BackupFunction(event, timestamp) ==
    IF ~HasKey(event, "cluster") \/ ~HasKey(event, "taskArn")
    THEN Raised("KeyError")
    ELSE Returned(desiredCount, [statusCode |-> 200, backupKey |-> BackupKey(timestamp),
                                 timestamp |-> timestamp])

\* UpdateDNSFunction
UpdateDNSFunction(event) ==
    IF ~EnableRoute53
    THEN Returned(desiredCount, [statusCode |-> 200, message |-> "Route53 disabled"])
    ELSE IF Get(event, "publicIp", "") = ""
         THEN Returned(desiredCount, [statusCode |-> 400, error |-> "No IP provided"])
         ELSE Returned(desiredCount, [statusCode |-> 200, changeId |-> "change-1"])

\* The handlers that run to completion within one invocation.
InvokeLambda(fn, event, timestamp) ==
    CASE fn = "StartTaskFunction" -> StartTaskFunction(event)
      [] fn = "StopTaskFunction" -> StopTaskFunction(event)
      [] fn = "BackupFunction" -> BackupFunction(event, timestamp)
      [] fn = "UpdateDNSFunction" -> UpdateDNSFunction(event)

\* The scale operation a function completes, if it is one.
ScaleOperation(fn) ==
    CASE fn = "StartTaskFunction" -> "start"
      [] fn = "StopTaskFunction" -> "stop"
      [] OTHER -> lastScale

\* ---------------------------------------------------------- state machines
TaskState(name, fn, resultPath, outputPath) ==
    [name |-> name, type |-> "Task", fn |-> fn, resultPath |-> resultPath,
     outputPath |-> outputPath]
WaitState(name) ==
    [name |-> name, type |-> "Wait", fn |-> "", resultPath |-> "", outputPath |-> <<>>]
SucceedState(name) ==
    [name |-> name, type |-> "Succeed", fn |-> "", resultPath |-> "", outputPath |-> <<>>]

\* start_task_step.next(wait_for_task).next(get_ip_step).next(update_dns_step).next(server_ready)
StartDefinition ==
    << TaskState("StartTask", "StartTaskFunction", "taskInfo", <<"taskInfo", "Payload">>),
       WaitState("WaitForTask"),
       TaskState("GetIP", "GetIPFunction", "ipInfo", <<"ipInfo", "Payload">>),
       TaskState("UpdateDNS", "UpdateDNSFunction", "dnsInfo", <<>>),
       SucceedState("ServerReady") >>

\* Mutant: the stop sequence scales down before it takes the snapshot.
StopDefinitionScaleDownFirst ==
    << TaskState("StopTask", "StopTaskFunction", "stopInfo", <<>>),
       TaskState("BackupWorld", "BackupFunction", "backupInfo", <<>>),
       SucceedState("ServerStopped") >>

\* backup_step.next(stop_task_step).next(server_stopped)
StopDefinition ==
    << TaskState("BackupWorld", "BackupFunction", "backupInfo", <<>>),
       TaskState("StopTask", "StopTaskFunction", "stopInfo", <<>>),
       SucceedState("ServerStopped") >>

Definition(machine) == IF machine = "Start" THEN StartDefinition ELSE StopDefinition

ExecIds == 1..Len(execs)

\* the state an execution is in
CurrentState(x) == Definition(x.machine)[x.at]

\* sfn.start_execution(stateMachineArn, input)
NewExecution(machine, input, interleaved) ==
    [machine |-> machine, status |-> "RUNNING", at |-> 1, input |-> input,
     history |-> <<>>, interleaved |-> interleaved]

\* A LambdaInvoke task's output: the result {Payload, StatusCode} is put into
\* the state's input at result_path, and output_path selects from that.
TaskOutput(st, input, ret) ==
    Select(Put(input, st.resultPath, [Payload |-> ret, StatusCode |-> 200]), st.outputPath)

\* the execution after its current state succeeded with this output
Advance(x, output) ==
    [x EXCEPT !.at = x.at + 1, !.input = output,
              !.history = Append(x.history, [state |-> CurrentState(x).name, event |-> "Succeeded"])]

\* the execution after its current state failed ("FunctionError": the handler
\* raised; "InvocationFailed": the invocation itself failed), after the
\* execution timed out ("TimedOut"), or after it succeeded
Terminate(x, status, event) ==
    [x EXCEPT !.status = status,
              !.history = Append(x.history, [state |-> CurrentState(x).name, event |-> event])]

\* ------------------------------------------------------------ GetIPFunction
\* lines 238-243: the last attachment holding a networkInterfaceId detail wins
\* (break leaves the inner loop only); within one, the first such detail.
RECURSIVE FirstInterface(_)
FirstInterface(details) ==
    IF details = <<>> THEN ""
    ELSE IF Head(details).name = "networkInterfaceId" THEN Head(details).value
         ELSE FirstInterface(Tail(details))

RECURSIVE EniId(_, _)
EniId(attachments, eni) ==
    IF attachments = <<>> THEN eni
    ELSE LET found == FirstInterface(Head(attachments).details)
         IN  EniId(Tail(attachments), IF found # "" THEN found ELSE eni)

\* lines 234-255: describe the task and its interface, build the return value
GetIPResult(taskArn) ==
    LET task == tasks[taskArn]
        eni_id == EniId(task.net.attachments, "")
    IN  IF eni_id # ""
        THEN [statusCode |-> 200, publicIp |-> task.net.publicIp, taskArn |-> taskArn]
        ELSE [statusCode |-> 500, error |-> "No IP found"]

\* the invocation once the handler has read its event (lines 222-223)
GetIPEntered(caller, event) ==
    IF ~HasKey(event, "cluster") \/ ~HasKey(event, "taskArn")
    THEN [GipIdle EXCEPT !.pc = "done", !.caller = caller, !.event = event,
                         !.result = [error |-> "KeyError"]]
    ELSE [GipIdle EXCEPT !.pc = "waiting", !.caller = caller, !.event = event]

\* what one describe_tasks call of the tasks_running waiter observes
Observed(taskArn) ==
    IF taskArn \in TaskIds THEN tasks[taskArn].lastStatus ELSE "MISSING"

\* the executions once the invocation a workflow made has ended in `result`
Delivered(caller, result) ==
    IF caller = 0 THEN execs
    ELSE IF HasKey(result, "error")
         THEN [execs EXCEPT ![caller] = Terminate(@, "FAILED", "FunctionError")]
         ELSE [execs EXCEPT ![caller] =
                  Advance(@, TaskOutput(CurrentState(@), @.input, result))]

\* the invocation ends: a direct caller reads gip.result, a workflow moves on
GetIPEnds(polled, result) ==
    /\ gip' = IF gip.caller = 0 THEN [polled EXCEPT !.pc = "done", !.result = result]
              ELSE GipIdle
    /\ execs' = Delivered(gip.caller, result)

\* One attempt of waiter.wait(..., WaiterConfig={'Delay': 6, 'MaxAttempts': 20}),
\* inside a function that is killed GetIPTimeout seconds after it started.
WaiterPoll ==
    /\ gip.pc = "waiting"
    /\ LET seen == Observed(gip.event["taskArn"])
           polled == [gip EXCEPT !.attempts = @ + 1, !.seen = seen]
       IN  CASE seen \in {"STOPPED", "MISSING"} ->
                   GetIPEnds(polled, [error |-> "WaiterError"])
             [] seen = "RUNNING" ->
                   /\ gip' = [polled EXCEPT !.pc = "describe"]
                   /\ UNCHANGED execs
             [] OTHER ->
                   IF polled.attempts >= WaiterMaxAttempts
                   THEN GetIPEnds(polled, [error |-> "WaiterError"])
                   ELSE IF gip.elapsed + WaiterDelay >= GetIPTimeout
                        THEN GetIPEnds(polled, [error |-> "Sandbox.Timedout"])
                        ELSE /\ gip' = [polled EXCEPT !.elapsed = @ + WaiterDelay]
                             /\ UNCHANGED execs
    /\ UNCHANGED <<desiredCount, tasks, platform, response, lastScale>>

\* lines 234-255, after the waiter returned
GetIPDescribe ==
    /\ gip.pc = "describe"
    /\ GetIPEnds(gip, GetIPResult(gip.event["taskArn"]))
    /\ UNCHANGED <<desiredCount, tasks, platform, response, lastScale>>

\* ---------------------------------------------------------- workflow engine
\* A Task state whose Lambda function runs to completion in one invocation.
TaskStateRun(e) ==
    /\ execs[e].status = "RUNNING"
    /\ CurrentState(execs[e]).type = "Task"
    /\ CurrentState(execs[e]).fn # "GetIPFunction"
    /\ LET x == execs[e]
           st == CurrentState(x)
           r == InvokeLambda(st.fn, x.input, UtcNow)
       IN  IF r.error # ""
           THEN /\ execs' = [execs EXCEPT ![e] = Terminate(x, "FAILED", "FunctionError")]
                /\ UNCHANGED <<desiredCount, lastScale>>
           ELSE /\ desiredCount' = r.desiredCount
                /\ lastScale' = ScaleOperation(st.fn)
                /\ execs' = [execs EXCEPT ![e] = Advance(x, TaskOutput(st, x.input, r.ret))]
    /\ UNCHANGED <<tasks, platform, response, gip>>

\* The GetIP Task state: the function is invoked with the state's input.
GetIPStateRun(e) ==
    /\ execs[e].status = "RUNNING"
    /\ CurrentState(execs[e]).type = "Task"
    /\ CurrentState(execs[e]).fn = "GetIPFunction"
    /\ gip.pc = "idle"
    /\ LET g == GetIPEntered(e, execs[e].input)
       IN  IF g.pc = "done"
           THEN /\ execs' = Delivered(e, g.result)
                /\ UNCHANGED gip
           ELSE /\ gip' = g
                /\ UNCHANGED execs
    /\ UNCHANGED <<desiredCount, tasks, platform, response, lastScale>>

\* A Task state fails without its function having acted (the invocation is
\* throttled, denied, or the service errors beyond the retries).
TaskStateFail(e) ==
    /\ execs[e].status = "RUNNING"
    /\ CurrentState(execs[e]).type = "Task"
    /\ gip.caller # e
    /\ execs' = [execs EXCEPT ![e] = Terminate(@, "FAILED", "InvocationFailed")]
    /\ UNCHANGED <<desiredCount, tasks, platform, response, lastScale, gip>>

\* sfn.Wait: the input passes through once the interval has elapsed.
WaitStateRun(e) ==
    /\ execs[e].status = "RUNNING"
    /\ CurrentState(execs[e]).type = "Wait"
    /\ execs' = [execs EXCEPT ![e] = Advance(@, @.input)]
    /\ UNCHANGED <<desiredCount, tasks, platform, response, lastScale, gip>>

\* sfn.Succeed: the execution ends successfully.
SucceedStateRun(e) ==
    /\ execs[e].status = "RUNNING"
    /\ CurrentState(execs[e]).type = "Succeed"
    /\ execs' = [execs EXCEPT ![e] = Terminate(@, "SUCCEEDED", "Succeeded")]
    /\ UNCHANGED <<desiredCount, tasks, platform, response, lastScale, gip>>

\* Mutant: a start execution that times out puts the desired count back to 0.
ExecutionTimeoutRollsBack(e) ==
    /\ execs[e].status = "RUNNING"
    /\ execs' = [execs EXCEPT ![e] = Terminate(@, "TIMED_OUT", "TimedOut")]
    /\ gip' = IF gip.caller = e THEN GipIdle ELSE gip
    /\ desiredCount' = IF execs[e].machine = "Start" /\ execs[e].at > 1 THEN 0
                       ELSE desiredCount
    /\ UNCHANGED <<tasks, platform, response, lastScale>>

\* StateMachine(timeout=Duration.minutes(10)): a running execution times out
\* in whatever state it is; no further state runs.
ExecutionTimeout(e) ==
    /\ execs[e].status = "RUNNING"
    /\ execs' = [execs EXCEPT ![e] = Terminate(@, "TIMED_OUT", "TimedOut")]
    /\ gip' = IF gip.caller = e THEN GipIdle ELSE gip
    /\ UNCHANGED <<desiredCount, tasks, platform, response, lastScale>>

\* ------------------------------------------------------------- API handler
\* Mutant: a request without an action is taken as a status request.
ApiActionDefaultsToStatus(event) ==
    Get(Get(event, "pathParameters", EmptyObject), "action", "status")

\* event.get('pathParameters', {}).get('action', '')
ApiAction(event) == Get(Get(event, "pathParameters", EmptyObject), "action", "")

\* What the handler returns and the execution it starts (none: <<>>).
ApiOutcome(statusCode, body, started) ==
    [response |-> [statusCode |-> statusCode, body |-> body], started |-> started]

\* Mutant: a start call is refused while an execution is in progress.
StartBranchDeduplicates(executionArn) ==
    IF \E j \in ExecIds : execs[j].status = "RUNNING"
    THEN ApiOutcome(409, [error |-> "Execution already in progress"], <<>>)
    ELSE ApiOutcome(200, [message |-> "Server starting", executionArn |-> executionArn],
                    <<[machine |-> "Start", input |-> EmptyObject]>>)

\* action == 'start'
StartBranch(executionArn) ==
    ApiOutcome(200, [message |-> "Server starting", executionArn |-> executionArn],
               <<[machine |-> "Start", input |-> EmptyObject]>>)

\* Mutant: the stop branch starts the stop sequence whether or not a task
\* was found (task 0: none).
StopBranchAlwaysStops(taskArns, executionArn) ==
    ApiOutcome(200, [message |-> "Server stopping", executionArn |-> executionArn],
               <<[machine |-> "Stop",
                  input |-> [cluster |-> ClusterName,
                             taskArn |-> IF taskArns = <<>> THEN 0 ELSE taskArns[1]]]>>)

\* Mutant: the stop branch passes on an index into the list, not the task found.
StopBranchWrongTask(taskArns, executionArn) ==
    IF taskArns = <<>>
    THEN ApiOutcome(404, [error |-> "No running server found"], <<>>)
    ELSE ApiOutcome(200, [message |-> "Server stopping", executionArn |-> executionArn],
                    <<[machine |-> "Stop", input |-> [cluster |-> ClusterName, taskArn |-> 0]]>>)

\* action == 'stop'
StopBranch(taskArns, executionArn) ==
    IF taskArns = <<>>
    THEN ApiOutcome(404, [error |-> "No running server found"], <<>>)
    ELSE ApiOutcome(200, [message |-> "Server stopping", executionArn |-> executionArn],
                    <<[machine |-> "Stop",
                       input |-> [cluster |-> ClusterName, taskArn |-> taskArns[1]]]>>)

\* Mutant: the status branch counts every task of the cluster, stopped or not.
StatusBranchCountsAll(taskArns) ==
    IF Len(tasks) = 0
    THEN ApiOutcome(200, [status |-> "stopped"], <<>>)
    ELSE ApiOutcome(200, [status |-> "running", taskCount |-> Len(tasks)], <<>>)

\* action == 'status'
StatusBranch(taskArns) ==
    IF taskArns = <<>>
    THEN ApiOutcome(200, [status |-> "stopped"], <<>>)
    ELSE ApiOutcome(200, [status |-> "running", taskCount |-> Len(taskArns)], <<>>)

\* any other action
InvalidBranch ==
    ApiOutcome(400, [error |-> "Invalid action. Use /start, /stop, or /status"], <<>>)

ApiDispatch(event, taskArns, executionArn) ==
    LET action == ApiAction(event)
    IN  CASE action = "start" -> StartBranch(executionArn)
          [] action = "stop" -> StopBranch(taskArns, executionArn)
          [] action = "status" -> StatusBranch(taskArns)
          [] OTHER -> InvalidBranch

\* The requests of the model: the three actions, another word, no action,
\* no pathParameters.
ApiEvents ==
    << [pathParameters |-> [action |-> "start"]],
       [pathParameters |-> [action |-> "stop"]],
       [pathParameters |-> [action |-> "status"]],
       [pathParameters |-> [action |-> "nonsense"]],
       [pathParameters |-> EmptyObject],
       EmptyObject >>

\* executions that overlap a new one are marked, and so is the new one
Overlapped == [j \in ExecIds |->
                 IF execs[j].status = "RUNNING" THEN [execs[j] EXCEPT !.interleaved = TRUE]
                 ELSE execs[j]]

ApiHandler(event) ==
    /\ UNCHANGED <<desiredCount, tasks, platform, lastScale, gip>>
    /\ \E taskArns \in ListTasks :
          LET out == ApiDispatch(event, taskArns, Len(execs) + 1)
          IN  /\ out.started # <<>> => Len(execs) < MaxExecs
              /\ response' = out.response
              /\ execs' = IF out.started = <<>> THEN execs
                          ELSE Append(Overlapped,
                                      NewExecution(out.started[1].machine, out.started[1].input,
                                                   \E j \in ExecIds : execs[j].status = "RUNNING"))

\* ---------------------------------------------- GetIPFunction invoked alone
\* The events of a direct invocation: a task of the cluster, one that does
\* not exist, and the output of the StartTask state.
GetIPEvents ==
    << [cluster |-> ClusterName, taskArn |-> 1],
       [cluster |-> ClusterName, taskArn |-> MaxTasks + 1],
       [statusCode |-> 200, message |-> "Server started"] >>

InvokeGetIP(event) ==
    /\ gip.pc \in {"idle", "done"}
    /\ gip' = GetIPEntered(0, event)
    /\ UNCHANGED <<desiredCount, tasks, platform, execs, response, lastScale>>

\* ------------------------------------------------------------------- init
\* The state the stack is deployed in: FargateService(desired_count=1,
\* assign_public_ip=True), no task yet, no execution, no request.
Deployed ==
    /\ desiredCount = InitialDesiredCount
    /\ tasks = <<>>
    /\ execs = <<>>
    /\ response = NoResponse
    /\ lastScale = "none"
    /\ gip = GipIdle

Init ==
    /\ Deployed
    /\ platform = InterfaceWithIp

\* GetIPFunction is tried against every shape of network attachment.
InitGetIP ==
    /\ Deployed
    /\ \E n \in 1..Len(NetworkShapes) : platform = NetworkShapes[n]

\* the service scheduler acts on the tasks
ServiceStep ==
    \/ EcsLaunchTask
    \/ \E t \in TaskIds : EcsTaskRunning(t)
    \/ \E t \in TaskIds : EcsDrainTask(t)
    \/ \E t \in TaskIds : EcsTaskStopped(t)

\* an execution runs its current state, fails in it, or times out
WorkflowStep ==
    \/ \E e \in ExecIds : TaskStateRun(e)
    \/ \E e \in ExecIds : GetIPStateRun(e)
    \/ \E e \in ExecIds : TaskStateFail(e)
    \/ \E e \in ExecIds : WaitStateRun(e)
    \/ \E e \in ExecIds : SucceedStateRun(e)
    \/ \E e \in ExecIds : ExecutionTimeout(e)

\* The deployed system: the service scheduler, the API and the workflows.
Next ==
    \/ ServiceStep
    \/ \E i \in 1..Len(ApiEvents) : ApiHandler(ApiEvents[i])
    \/ WorkflowStep

Spec == Init /\ [][Next]_vars

\* GetIPFunction invoked on its own against the tasks of the service.
NextGetIP ==
    \/ EcsLaunchTask
    \/ \E t \in TaskIds : EcsTaskRunning(t)
    \/ \E t \in TaskIds : EcsTaskExits(t)
    \/ \E t \in TaskIds : EcsTaskStopped(t)
    \/ \E i \in 1..Len(GetIPEvents) : InvokeGetIP(GetIPEvents[i])
    \/ WaiterPoll
    \/ GetIPDescribe

SpecGetIP == InitGetIP /\ [][NextGetIP]_vars

\* The workflow engine runs the current state of every running execution.
EngineStep(e) ==
    /\ e \in ExecIds
    /\ \/ TaskStateRun(e)
       \/ GetIPStateRun(e)
       \/ WaitStateRun(e)
       \/ SucceedStateRun(e)

\* the requests that can start an execution
LifecycleCalls == {i \in 1..Len(ApiEvents) : ApiAction(ApiEvents[i]) \in {"start", "stop"}}

\* The system as the start and stop calls drive it (the other calls change
\* nothing but the response).
LifecycleNext ==
    \/ ServiceStep
    \/ \E i \in LifecycleCalls : ApiHandler(ApiEvents[i])
    \/ WorkflowStep

\* ... with the engine never leaving a running execution's state unrun.
FairSpec ==
    Init /\ [][LifecycleNext]_vars /\ \A e \in 1..MaxExecs : WF_vars(EngineStep(e))

\* ------------------------------------------------------------------ claims
IsStart(x) == x.machine = "Start"
IsStop(x) == x.machine = "Stop"

\* the named state of the execution ran to success
Ran(x, name) ==
    \E k \in 1..Len(x.history) : x.history[k] = [state |-> name, event |-> "Succeeded"]

\* C1: in every reachable state the Service's desired count is 0 or 1.
C1_DesiredCountZeroOrOne == desiredCount \in {0, 1}

\* a stop execution has scaled down and a start execution has scaled up
C1_Witness ==
    /\ desiredCount = 0
    /\ \E e \in ExecIds : IsStart(execs[e]) /\ Ran(execs[e], "StartTask")
    /\ \E e \in ExecIds : IsStop(execs[e]) /\ Ran(execs[e], "StopTask")

AllTerminated == \A e \in ExecIds : execs[e].status # "RUNNING"

\* C2: once every execution has terminated, the desired count is 1 if the
\* last completed scale operation was a start (ScaleUp) and 0 if it was a
\* stop (ScaleDown).
C2_SettledCountFollowsLastScale ==
    AllTerminated =>
        /\ lastScale = "start" => desiredCount = 1
        /\ lastScale = "stop" => desiredCount = 0

\* both kinds of execution have scaled and terminated, the start one last
C2_Witness ==
    /\ AllTerminated
    /\ lastScale = "start"
    /\ \E e \in ExecIds : IsStop(execs[e]) /\ Ran(execs[e], "StopTask")

\* the action value a request carries in its path, "(missing)" if it carries none
RequestedAction(event) ==
    IF HasKey(event, "pathParameters") /\ HasKey(event["pathParameters"], "action")
    THEN event["pathParameters"].action
    ELSE "(missing)"

StopEvents == {i \in 1..Len(ApiEvents) : RequestedAction(ApiEvents[i]) = "stop"}
StatusEvents == {i \in 1..Len(ApiEvents) : RequestedAction(ApiEvents[i]) = "status"}
InvalidEvents == {i \in 1..Len(ApiEvents) :
                    RequestedAction(ApiEvents[i]) \notin {"start", "stop", "status"}}

\* C3: a stop call made while list_tasks finds no running task (none with
\* desired status RUNNING) returns 404 'No running server found', creates no
\* execution and leaves the desired count unchanged.
C3_StopWithoutTaskIsNotFound ==
    [][\A i \in StopEvents :
          (DesiredRunning = {} /\ ApiHandler(ApiEvents[i])) =>
              /\ response'.statusCode = 404
              /\ response'.body = [error |-> "No running server found"]
              /\ execs' = execs
              /\ desiredCount' = desiredCount]_vars

\* a stop call was answered 404 after the only task had been drained
C3_Witness ==
    /\ response.statusCode = 404
    /\ DesiredRunning = {}
    /\ Len(tasks) > 0

\* the snapshot step of the execution succeeded
BackupSucceeded(x) == Ran(x, "BackupWorld")

\* C4: in a stop execution the Snapshot step precedes the ScaleDown step: an
\* execution whose snapshot has not succeeded (it is still to run, it failed,
\* or the execution timed out in it) takes no step that runs StopTask or
\* changes the desired count, and one that ended in the snapshot step never
\* moves again.
C4_SnapshotPrecedesScaleDown ==
    [][\A e \in ExecIds :
          (IsStop(execs[e]) /\ ~BackupSucceeded(execs[e])) =>
              /\ execs'[e] # execs[e] =>
                    /\ desiredCount' = desiredCount
                    /\ ~Ran(execs'[e], "StopTask")
              /\ execs[e].status # "RUNNING" => execs'[e] = execs[e]]_vars

\* a stop execution failed or timed out in its snapshot step, and the
\* service is still scaled up
C4_Witness ==
    \E e \in ExecIds :
        /\ IsStop(execs[e])
        /\ execs[e].status \in {"FAILED", "TIMED_OUT"}
        /\ CurrentState(execs[e]).name = "BackupWorld"
        /\ desiredCount = 1

\* C5: a start execution runs ScaleUp, Wait, ResolveAddress, UpdateName, Done
\* with each output the next input: the ResolveAddress step receives the
\* cluster and task identifier it needs, so no start execution ends in
\* ResolveAddress because the function could not read its event.
C5_ResolveAddressReceivesItsInput ==
    \A e \in ExecIds :
        (IsStart(execs[e]) /\ CurrentState(execs[e]).name = "GetIP") =>
            /\ HasKey(execs[e].input, "cluster")
            /\ HasKey(execs[e].input, "taskArn")
            /\ execs[e].status = "FAILED" =>
                  execs[e].history[Len(execs[e].history)].event # "FunctionError"

\* the invocation has ended and its waiter never saw the task RUNNING: the
\* task was still PENDING at the last attempt
EndedWithoutRunning == gip.pc = "done" /\ gip.seen = "PENDING"

\* C6: given a task that never reaches RUNNING within the poll budget, the
\* Address Resolver ends after at most WaiterMaxAttempts attempts and returns
\* a failure result value.
C6_PollExhaustedReturnsFailure ==
    EndedWithoutRunning =>
        /\ gip.attempts <= WaiterMaxAttempts
        /\ ~HasKey(gip.result, "error")
        /\ gip.result.statusCode # 200

\* the task has a network interface that has a public address
HasPublicAddress(task) ==
    /\ \E a \in 1..Len(task.net.attachments) :
          \E d \in 1..Len(task.net.attachments[a].details) :
              task.net.attachments[a].details[d].name = "networkInterfaceId"
    /\ task.net.publicIp # ""

\* C7: for a task that reached RUNNING the Address Resolver returns 200 with
\* the address only when the task has a network interface with a public
\* address, and otherwise returns 500 'No IP found'.
C7_SuccessOnlyWithPublicAddress ==
    (gip.pc = "done" /\ HasKey(gip.result, "statusCode")) =>
        LET task == tasks[gip.event["taskArn"]]
        IN  IF HasPublicAddress(task)
            THEN gip.result = [statusCode |-> 200, publicIp |-> task.net.publicIp,
                               taskArn |-> gip.event["taskArn"]]
            ELSE gip.result = [statusCode |-> 500, error |-> "No IP found"]

\* C8: a status call returns 'stopped' exactly when list_tasks finds no
\* running task (none with desired status RUNNING) and otherwise 'running'
\* with taskCount the number of tasks found; it creates no execution and
\* leaves the desired count unchanged.
C8_StatusReportsRunningTasks ==
    [][\A i \in StatusEvents :
          ApiHandler(ApiEvents[i]) =>
              /\ response'.statusCode = 200
              /\ response'.body = IF DesiredRunning = {} THEN [status |-> "stopped"]
                                  ELSE [status |-> "running",
                                        taskCount |-> Cardinality(DesiredRunning)]
              /\ execs' = execs
              /\ desiredCount' = desiredCount]_vars

\* a status call was answered 'running' with one task
C8_Witness ==
    /\ response.statusCode = 200
    /\ HasKey(response.body, "status")
    /\ response.body.status = "running"
    /\ response.body.taskCount = 1

\* the key the snapshot step recorded in the execution's state
RecordedBackupKey(x) ==
    IF HasKey(x.input, "backupInfo") THEN x.input["backupInfo"].Payload.backupKey ELSE <<>>

\* C9: a stop call made with one running task returns an execution
\* identifier and starts exactly one stop execution whose input carries that
\* task's identifier; every stop execution eventually terminates, and only a
\* failed invocation or the timeout keeps it from succeeding; when it
\* succeeds with no other execution having overlapped it, the desired count
\* is 0 and the snapshot step recorded a backup key before the scale-down.
C9_StopRunsToCompletion ==
    /\ [][\A i \in StopEvents :
            (Cardinality(DesiredRunning) = 1 /\ ApiHandler(ApiEvents[i])) =>
                /\ response'.statusCode = 200
                /\ response'.body.executionArn = Len(execs) + 1
                /\ Len(execs') = Len(execs) + 1
                /\ IsStop(execs'[Len(execs')])
                /\ execs'[Len(execs')].status = "RUNNING"
                /\ execs'[Len(execs')].input["taskArn"] \in DesiredRunning]_vars
    /\ [][\A e \in ExecIds :
            (IsStop(execs[e]) /\ execs[e].status = "RUNNING" /\ execs'[e].status # "RUNNING") =>
                /\ execs'[e].status # "SUCCEEDED" =>
                      execs'[e].history[Len(execs'[e].history)].event
                          \in {"InvocationFailed", "TimedOut"}
                /\ (execs'[e].status = "SUCCEEDED" /\ ~execs'[e].interleaved) =>
                      /\ desiredCount' = 0
                      /\ RecordedBackupKey(execs'[e]) = BackupKey(UtcNow)
                      /\ execs'[e].history =
                            << [state |-> "BackupWorld", event |-> "Succeeded"],
                               [state |-> "StopTask", event |-> "Succeeded"],
                               [state |-> "ServerStopped", event |-> "Succeeded"] >>]_vars
    /\ \A e \in 1..MaxExecs :
          (e \in ExecIds /\ IsStop(execs[e]))
              ~> (e \in ExecIds /\ execs[e].status # "RUNNING")

\* a stop execution that nothing overlapped has succeeded: the service is
\* scaled down and the key is recorded
C9_Witness ==
    \E e \in ExecIds :
        /\ IsStop(execs[e])
        /\ execs[e].status = "SUCCEEDED"
        /\ ~execs[e].interleaved
        /\ desiredCount = 0
        /\ RecordedBackupKey(execs[e]) = BackupKey(UtcNow)

\* C10: for every action other than 'start', 'stop' and 'status' (a missing
\* action included) the API returns 400 'Invalid action. Use /start, /stop,
\* or /status', creates no execution and leaves the desired count unchanged.
C10_OtherActionsAreInvalid ==
    [][\A i \in InvalidEvents :
          ApiHandler(ApiEvents[i]) =>
              /\ response'.statusCode = 400
              /\ response'.body = [error |-> "Invalid action. Use /start, /stop, or /status"]
              /\ execs' = execs
              /\ desiredCount' = desiredCount]_vars

\* an invalid action was answered 400 while an execution was running
C10_Witness ==
    /\ response.statusCode = 400
    /\ \E e \in ExecIds : execs[e].status = "RUNNING"

StartEvents == {i \in 1..Len(ApiEvents) : RequestedAction(ApiEvents[i]) = "start"}

\* the execution has completed its scale step and is still in progress
PastScaleUp(x) == IsStart(x) /\ x.status = "RUNNING" /\ Ran(x, "StartTask")

\* C11: start and stop calls are neither mutually excluded nor deduplicated:
\* whatever the desired count and whatever executions are in progress, a
\* start call can be made, is answered 200 with a new execution identifier
\* and creates one new running start execution, the others staying as they
\* are (so executions interleave and the desired count can disagree with
\* the state the orchestration has reached).
C11_StartAlwaysAccepted ==
    /\ [](\A i \in StartEvents :
            Len(execs) < MaxExecs => ENABLED ApiHandler(ApiEvents[i]))
    /\ [][\A i \in StartEvents :
            ApiHandler(ApiEvents[i]) =>
                /\ response'.statusCode = 200
                /\ response'.body.executionArn = Len(execs) + 1
                /\ Len(execs') = Len(execs) + 1
                /\ IsStart(execs'[Len(execs')])
                /\ execs'[Len(execs')].status = "RUNNING"
                /\ execs'[Len(execs')].at = 1
                /\ \A j \in ExecIds :
                      /\ execs'[j].status = execs[j].status
                      /\ execs'[j].at = execs[j].at
                /\ desiredCount' = desiredCount]_vars

\* a stop execution has reached its Done state while the desired count is 1,
\* a start execution that overlapped it having scaled up after its scale-down
C11_Witness ==
    /\ desiredCount = 1
    /\ \E s \in ExecIds :
          /\ IsStop(execs[s])
          /\ execs[s].status = "SUCCEEDED"
          /\ execs[s].interleaved
    /\ \E e \in ExecIds : PastScaleUp(execs[e])

\* a start execution is past ScaleUp while the desired count is 0, a stop
\* execution that overlapped it having scaled down after its scale-up
C11_StartPastScaleUpAtZero ==
    /\ desiredCount = 0
    /\ \E e \in ExecIds : PastScaleUp(execs[e])
    /\ \E s \in ExecIds : IsStop(execs[s]) /\ Ran(execs[s], "StopTask")

\* two start executions are in progress at once
C11_TwoStartsInProgress ==
    \E e, f \in ExecIds :
        /\ e # f
        /\ IsStart(execs[e]) /\ execs[e].status = "RUNNING"
        /\ IsStart(execs[f]) /\ execs[f].status = "RUNNING"

\* the start execution ended in failure or by timeout after its scale step
FailedAfterScaleUp(x) ==
    IsStart(x) /\ x.status \in {"FAILED", "TIMED_OUT"} /\ Ran(x, "StartTask")

\* a stop execution's scale-down step completes in this step
ScaleDownRuns ==
    \E s \in ExecIds :
        IsStop(execs[s]) /\ ~Ran(execs[s], "StopTask") /\ Ran(execs'[s], "StopTask")

\* C12: when a start execution fails or times out after ScaleUp has
\* completed, the step that ends it leaves the desired count unchanged, no
\* further state of it runs, and there is no rollback: with such an
\* execution ended, a desired count of 1 changes only in a step in which a
\* stop execution's ScaleDown runs.
C12_NoRollbackAfterStartFails ==
    [][/\ \A e \in ExecIds :
             /\ (PastScaleUp(execs[e]) /\ FailedAfterScaleUp(execs'[e])) =>
                    /\ desiredCount' = desiredCount
                    /\ execs'[e].at = execs[e].at
             /\ FailedAfterScaleUp(execs[e]) => execs'[e] = execs[e]
       /\ ((\E e \in ExecIds : FailedAfterScaleUp(execs[e]))
              /\ desiredCount = 1 /\ desiredCount' # 1) => ScaleDownRuns]_vars

\* a start execution failed after ScaleUp and another timed out after it;
\* the desired count is still 1 and the task it brought up is running
C12_Witness ==
    /\ desiredCount = 1
    /\ \E e \in ExecIds : FailedAfterScaleUp(execs[e]) /\ execs[e].status = "FAILED"
    /\ \E e \in ExecIds : FailedAfterScaleUp(execs[e]) /\ execs[e].status = "TIMED_OUT"
    /\ \E t \in TaskIds : tasks[t].lastStatus = "RUNNING"

\* a stop execution scaled down after a start execution had failed: the
\* count left 1 only then
C12_ScaledDownAfterFailure ==
    /\ desiredCount = 0
    /\ \E e \in ExecIds : FailedAfterScaleUp(execs[e])
    /\ \E s \in ExecIds : IsStop(execs[s]) /\ execs[s].status = "SUCCEEDED"
====
